---------------------------- MODULE Spec2Model ----------------------------
(***************************************************************************)
(* NationVitals: the three route handlers (boundary GeoJSON, per-year      *)
(* metrics, confounder-adjusted comparison) and the CountyMapGL component. *)
(*                                                                         *)
(* The parts share no state, so each has a specification of its own that   *)
(* leaves the variables of the other parts at their initial values:        *)
(*   SpecCompare / FairCompare   GET /api/compare                          *)
(*   SpecData                    GET /api/geojson, GET /api/years/{year}   *)
(*   SpecColor                   getColorForValue, as a function           *)
(*   SpecFill                    updateMapColors' expression, as a function*)
(*   SpecMap                     the CountyMapGL component, from its mount *)
(*   SpecHover                   the hover listeners, as maplibre calls    *)
(*                               them over a county layer                  *)
(*   SpecTeardown                the map's effects and their cleanups, for *)
(*                               either outcome of the container test      *)
(***************************************************************************)
EXTENDS Integers, Sequences, FiniteSets, TLC

VARIABLES
    \* ---- GET /api/compare: one request slot (requests share no state)
    cmpPc,          \* "idle" | "awaitExec" | "done"
    cmpQuery,       \* the raw query parameters of the request in the slot
    cmpArgs,        \* the values interpolated into the command
    execCalls,      \* execAsync invocations made for this request
    proc,           \* the child: "none" | "running" | "exited" | "killed"
    procResult,     \* [code, stdout] of an exited child
    clock,          \* ms since the child was spawned
    cmpResponse,    \* the NextResponse returned (status 0: none yet)
    cmpResponses,   \* how many responses the request has received
    \* ---- data access layer
    fsDataDir,      \* public/data exists as a directory
    fsGeo,          \* contents of public/data/us_counties.geojson, or ABSENT
    fsYears,        \* year -> contents of public/data/years/{year}.json
    dataReq,        \* the last request served: [route, year]
    dataResponse,   \* its response (status 0: none yet)
    \* ---- getColorForValue
    colorValue, colorIsPolitic, colorResult,
    \* ---- the fill expression of updateMapColors, as a function
    fillData, fillMetric, fillGeoid, fillColorOut,
    \* ---- the CountyMapGL component
    mounted,        \* an instance of the component is mounted
    rendered,       \* the instance has been rendered and committed once
    dirty,          \* state hooks set since the last commit
    view,           \* the committed tree: "none" | "loading" | "main"
    containerAttached, \* mapContainer.current is the map's div
    loading, countyData, metric, hoveredCounty,     \* useState
    map,            \* map.current: the maplibre instance, or NoMap
    initCleanup,    \* the initialize-map effect returned its cleanup
    metricFetch,    \* fetch of county_data.json: "none" | "inflight" |
                    \*   "resolved" | "rejected"
    geoPending,     \* fetches of us_counties.geojson in flight (closures)
    geoIssued,      \* a fetch of us_counties.geojson was issued
    geoFailed,      \* a fetch of us_counties.geojson failed
    \* ---- the hover listeners over a county layer
    tipData,        \* countyData of the render that registered the listeners
    tipHovered,     \* hoveredCounty
    tipMouseIn,     \* maplibre: the pointer was last seen over the layer
    tipLastEvent,   \* the last pointer event: "none" | "hit" | "miss" | "out"
    tipLastHit,     \* GEOID of the topmost feature of the last movement
    tipArmed,       \* a recorded county was hit since the last clearing event
    \* ---- the map instance of one component instance, up to and after unmount
    tdMap,          \* map.current
    tdCreated,      \* "Initialize map" created the instance (and returned
                    \*   its cleanup)
    tdData, tdMetric,   \* countyData and metric of the committed render
    tdHandler,      \* a load handler is registered on the instance
    tdLoadFired,    \* the instance's load event has been fired
    tdFetch,        \* fetch of us_counties.geojson: "none" | "inflight" |
                    \*   "settled"
    tdUnmounted,    \* the component has been unmounted
    tdLateRuns,     \* callbacks completed after the unmount
    tdLateOps       \* of these, the ones that operated on a map

NULL == "<null>"

cmpVars  == <<cmpPc, cmpQuery, cmpArgs, execCalls, proc, procResult, clock,
              cmpResponse, cmpResponses>>
dataVars == <<fsDataDir, fsGeo, fsYears, dataReq, dataResponse>>
colorVars == <<colorValue, colorIsPolitic, colorResult>>
fillVars == <<fillData, fillMetric, fillGeoid, fillColorOut>>
mapVars == <<mounted, rendered, dirty, view, containerAttached, loading,
             countyData, metric, hoveredCounty, map, initCleanup, metricFetch,
             geoPending, geoIssued, geoFailed>>
tipVars == <<tipData, tipHovered, tipMouseIn, tipLastEvent, tipLastHit,
             tipArmed>>
tdVars == <<tdMap, tdCreated, tdData, tdMetric, tdHandler, tdLoadFired,
            tdFetch, tdUnmounted, tdLateRuns, tdLateOps>>
vars == <<cmpVars, dataVars, colorVars, fillVars, mapVars, tipVars, tdVars>>

\* what each part leaves alone
NotCmp   == <<dataVars, colorVars, fillVars, mapVars, tipVars,
              tdVars>>
NotData  == <<cmpVars, colorVars, fillVars, mapVars, tipVars,
              tdVars>>
NotColor == <<cmpVars, dataVars, fillVars, mapVars, tipVars,
              tdVars>>
NotFill  == <<cmpVars, dataVars, colorVars, mapVars, tipVars,
              tdVars>>
NotMap   == <<cmpVars, dataVars, colorVars, fillVars, tipVars,
              tdVars>>
NotTip   == <<cmpVars, dataVars, colorVars, fillVars, mapVars,
              tdVars>>
NotTd    == <<cmpVars, dataVars, colorVars, fillVars, mapVars, tipVars>>

(***************************************************************************)
(* JSON text.  A text is what a file or a child's stdout holds; JSON.parse *)
(* maps a well-formed text to the value it denotes and throws on any other.*)
(* String.prototype.trim removes the surrounding white space (the "\n"     *)
(* that python's print appends).                                           *)
(***************************************************************************)
JsonTable ==
    { <<"{\"adjusted_a\":12.5}", "value:{adjusted_a:12.5}">>,
      <<"{\"adjusted_a\":30}", "value:{adjusted_a:30}">>,
      <<"null", "value:null">>,
      <<"{\"type\":\"FeatureCollection\",\"features\":[]}",
        "value:{type:FeatureCollection,features:[]}">>,
      <<"[{\"fips\":\"01001\",\"DrugDeathRate\":12.5}]",
        "value:[{fips:01001,DrugDeathRate:12.5}]">>,
      <<"[]", "value:[]">> }

Trim(t) ==
    CASE t = "{\"adjusted_a\":12.5}\n" -> "{\"adjusted_a\":12.5}"
      [] t = "null\n"                  -> "null"
      [] t = "NaN\n"                   -> "NaN"
      [] t = "\n"                      -> ""
      [] OTHER                         -> t

JsonWellFormed(t) == \E p \in JsonTable : p[1] = t

JsonParse(t) == (CHOOSE p \in JsonTable : p[1] = t)[2]

(***************************************************************************)
(*                        GET /api/compare                                 *)
(***************************************************************************)
timeout == 10000        \* exec's timeout option, ms
TickMs  == 5000         \* granularity of the modelled clock, ms

CountyParams == { NULL, "", "01001" }        \* searchParams.get: null, empty, a code
YearParams   == { NULL, "", "2020" }
FlagParams   == { NULL, "true", "True", "1" }
Queries == [ countyA : CountyParams, countyB : CountyParams, year : YearParams,
             controlPoverty : FlagParams, controlIncome : FlagParams,
             controlUrbanRural : FlagParams ]

\* what the child may print: JSON followed by print's newline, JSON without
\* it, nothing, a traceback, python's NaN (json.dumps emits it bare)
Stdouts == { "{\"adjusted_a\":12.5}\n", "{\"adjusted_a\":30}", "null\n", "\n",
             "", "Traceback (most recent call last)", "NaN\n" }
ExitCodes == { 0, 1 }

\* !x for a string-or-null x
Falsy(x) == x = NULL \/ x = ""

\* searchParams.get('year') || '2023'
YearOf(q) == IF Falsy(q.year) THEN "2023" ELSE q.year

\* mutant: the comparison ignores case
ParseFlag_AnyCase(x) == x \in { "true", "True" }

\* searchParams.get(name) === 'true'
ParseFlag(x) == x = "true"

\* controlX ? 'True' : 'False'
PyBool(b) == IF b THEN "True" ELSE "False"

\* mutant: only a parameter that is absent counts as missing
MissingRequired_NullOnly(q) == q.countyA = NULL \/ q.countyB = NULL

\* if (!countyA || !countyB)
MissingRequired(q) == Falsy(q.countyA) \/ Falsy(q.countyB)

BadRequest ==
    [ status |-> 400,
      body   |-> [ error |-> "Missing required parameters: countyA, countyB",
                   details |-> NULL, value |-> NULL ],
      cacheControl |-> NULL ]

InternalError(details) ==
    [ status |-> 500,
      body   |-> [ error |-> "Failed to compute adjusted comparison",
                   details |-> details, value |-> NULL ],
      cacheControl |-> NULL ]

Ok(value) ==
    [ status |-> 200,
      body   |-> [ error |-> NULL, details |-> NULL, value |-> value ],
      cacheControl |-> "public, max-age=3600" ]

\* promisify(exec): rejects when the child was killed or exited non-zero
ExecRejects(p, r) == p = "killed" \/ r.code # 0

\* mutant: the exit status is not looked at, whatever was printed is parsed
CompareOutcome_IgnoresExit(p, r) ==
    IF p = "killed"
    THEN InternalError("Command failed (killed)")
    ELSE IF JsonWellFormed(Trim(r.stdout))
         THEN Ok(JsonParse(Trim(r.stdout)))
         ELSE InternalError("Unexpected token in JSON")

\* the code after the await, with the catch block
CompareOutcome(p, r) ==
    IF ExecRejects(p, r)
    THEN InternalError(IF p = "killed" THEN "Command failed (killed)"
                                       ELSE "Command failed")
    ELSE IF JsonWellFormed(Trim(r.stdout))
         THEN Ok(JsonParse(Trim(r.stdout)))
         ELSE InternalError("Unexpected token in JSON")

NoResult == [ code |-> 0, stdout |-> "" ]
NoQuery == [ countyA |-> NULL, countyB |-> NULL, year |-> NULL,
             controlPoverty |-> NULL, controlIncome |-> NULL,
             controlUrbanRural |-> NULL ]
NoArgs == NoQuery
NoResponse ==
    [ status |-> 0,
      body   |-> [ error |-> NULL, details |-> NULL, value |-> NULL ],
      cacheControl |-> NULL ]

CmpInit ==
    /\ cmpPc = "idle"
    /\ cmpQuery = NoQuery
    /\ cmpArgs = NoArgs
    /\ execCalls = 0
    /\ proc = "none"
    /\ procResult = NoResult
    /\ clock = 0
    /\ cmpResponse = NoResponse
    /\ cmpResponses = 0

\* The handler up to its first await: parse, validate, and either return 400
\* or build the command and call execAsync.
CompareRequest(q) ==
    /\ cmpPc = "idle"
    /\ cmpQuery' = q
    /\ IF MissingRequired(q)
       THEN /\ cmpResponse' = BadRequest
            /\ cmpResponses' = cmpResponses + 1
            /\ cmpPc' = "done"
            /\ UNCHANGED <<cmpArgs, execCalls, proc, procResult, clock>>
       ELSE /\ cmpArgs' = [ countyA |-> q.countyA, countyB |-> q.countyB,
                            year |-> YearOf(q),
                            controlPoverty |-> PyBool(ParseFlag(q.controlPoverty)),
                            controlIncome |-> PyBool(ParseFlag(q.controlIncome)),
                            controlUrbanRural |->
                                PyBool(ParseFlag(q.controlUrbanRural)) ]
            /\ execCalls' = execCalls + 1
            /\ proc' = "running"
            /\ clock' = 0
            /\ cmpPc' = "awaitExec"
            /\ UNCHANGED <<procResult, cmpResponse, cmpResponses>>
    /\ UNCHANGED NotCmp

\* time passes while the child runs
Tick ==
    /\ proc = "running"
    /\ clock < timeout
    /\ clock' = clock + TickMs
    /\ UNCHANGED <<cmpPc, cmpQuery, cmpArgs, execCalls, proc, procResult,
                   cmpResponse, cmpResponses, NotCmp>>

\* the external routine ends by itself, before the deadline
ChildExit(code, out) ==
    /\ proc = "running"
    /\ clock < timeout
    /\ proc' = "exited"
    /\ procResult' = [ code |-> code, stdout |-> out ]
    /\ UNCHANGED <<cmpPc, cmpQuery, cmpArgs, execCalls, clock,
                   cmpResponse, cmpResponses, NotCmp>>

\* mutant: exec called without the timeout option, no timer kills the child
ExecTimeout_NoTimer ==
    /\ proc = "running"
    /\ clock >= timeout
    /\ UNCHANGED vars

\* exec's timer: at the deadline the child is killed
ExecTimeout ==
    /\ proc = "running"
    /\ clock >= timeout
    /\ proc' = "killed"
    /\ UNCHANGED <<cmpPc, cmpQuery, cmpArgs, execCalls, procResult, clock,
                   cmpResponse, cmpResponses, NotCmp>>

\* the handler resumes after the await and returns its response
CompareContinue ==
    /\ cmpPc = "awaitExec"
    /\ proc \in { "exited", "killed" }
    /\ cmpResponse' = CompareOutcome(proc, procResult)
    /\ cmpResponses' = cmpResponses + 1
    /\ cmpPc' = "done"
    /\ UNCHANGED <<cmpQuery, cmpArgs, execCalls, proc, procResult, clock,
                   NotCmp>>

\* the slot is reused by the next request (a fresh invocation of the handler)
CompareNext ==
    /\ cmpPc = "done"
    /\ cmpPc' = "idle"
    /\ cmpQuery' = NoQuery
    /\ cmpArgs' = NoArgs
    /\ execCalls' = 0
    /\ proc' = "none"
    /\ procResult' = NoResult
    /\ clock' = 0
    /\ cmpResponse' = NoResponse
    /\ cmpResponses' = 0
    /\ UNCHANGED NotCmp


(***************************************************************************)
(*              GET /api/geojson and GET /api/years/{year}                 *)
(***************************************************************************)
ABSENT == "<absent>"

GeoTexts  == { "{\"type\":\"FeatureCollection\",\"features\":[]}",
               "{\"type\":\"FeatureColl", "null" }
YearTexts == { "[{\"fips\":\"01001\",\"DrugDeathRate\":12.5}]", "[", "[]" }
Years     == { "1899", "2018", "2023" }

ImmutableCache == "public, max-age=31536000, immutable"

NoDataRequest  == [ route |-> NULL, year |-> NULL ]
NoDataResponse == [ status |-> 0, error |-> NULL, value |-> NULL,
                    contentType |-> NULL, cacheControl |-> NULL ]

\* the states a file system can be in: without public/data there is no file
\* below it
FsConsistent(dir, geo, years) ==
    dir \/ (geo = ABSENT /\ \A y \in Years : years[y] = ABSENT)

\* fs.existsSync(filePath)
ExistsSync(file) == file # ABSENT

ErrorResponse(status, error) ==
    [ status |-> status, error |-> error, value |-> NULL,
      contentType |-> NULL, cacheControl |-> NULL ]

DataOk(value, contentType) ==
    [ status |-> 200, error |-> NULL, value |-> value,
      contentType |-> contentType, cacheControl |-> ImmutableCache ]

\* GET of the geojson route.  The branch for a missing file logs
\* fs.readdirSync(public/data) before it returns; readdirSync throws when the
\* directory does not exist, and the throw lands in the catch block.  After
\* JSON.parse, geojson.features?.length is logged: a TypeError when the file
\* holds the text null.
GeoJsonResponse(dir, geo) ==
    IF ~ExistsSync(geo)
    THEN IF ~dir
         THEN ErrorResponse(500, "Failed to load GeoJSON")
         ELSE ErrorResponse(404, "GeoJSON file not found")
    ELSE IF ~JsonWellFormed(geo)
         THEN ErrorResponse(500, "Failed to load GeoJSON")
         ELSE IF JsonParse(geo) = "value:null"
              THEN ErrorResponse(500, "Failed to load GeoJSON")
              ELSE DataOk(JsonParse(geo), "application/geo+json")

\* mutant: the file is read without the existence check
YearResponse_NoExistsCheck(file, year) ==
    IF ~ExistsSync(file) \/ ~JsonWellFormed(file)
    THEN ErrorResponse(500, "Failed to load year data")
    ELSE DataOk(JsonParse(file), "application/json")

\* GET of the years/[year] route
YearResponse(file, year) ==
    IF ~ExistsSync(file)
    THEN ErrorResponse(404, "Year " \o year \o " not found")
    ELSE IF ~JsonWellFormed(file)
         THEN ErrorResponse(500, "Failed to load year data")
         ELSE DataOk(JsonParse(file), "application/json")

DataInit ==
    /\ fsDataDir \in BOOLEAN
    /\ fsGeo \in GeoTexts \cup { ABSENT }
    /\ fsYears \in [ Years -> YearTexts \cup { ABSENT } ]
    /\ FsConsistent(fsDataDir, fsGeo, fsYears)
    /\ dataReq = NoDataRequest
    /\ dataResponse = NoDataResponse

DataIdle ==
    /\ fsDataDir = FALSE
    /\ fsGeo = ABSENT
    /\ fsYears = [ y \in Years |-> ABSENT ]
    /\ dataReq = NoDataRequest
    /\ dataResponse = NoDataResponse

GetGeoJson ==
    /\ dataReq' = [ route |-> "geojson", year |-> NULL ]
    /\ dataResponse' = GeoJsonResponse(fsDataDir, fsGeo)
    /\ UNCHANGED <<fsDataDir, fsGeo, fsYears, NotData>>

GetYearData(year) ==
    /\ dataReq' = [ route |-> "years", year |-> year ]
    /\ dataResponse' = YearResponse(fsYears[year], year)
    /\ UNCHANGED <<fsDataDir, fsGeo, fsYears, NotData>>

(***************************************************************************)
(*                          getColorForValue                               *)
(***************************************************************************)
MaxAbsValue == 45       \* values range over -MaxAbsValue .. MaxAbsValue

\* number | null
JsNull   == [ isNull |-> TRUE, n |-> 0 ]
JsNum(n) == [ isNull |-> FALSE, n |-> n ]
MetricValues == { JsNum(n) : n \in -MaxAbsValue .. MaxAbsValue } \cup { JsNull }

\* mutant: the tests are >= instead of >
getColorForValue_Inclusive(value, isPolitic) ==
    IF value.isNull THEN "#e5e7eb"
    ELSE IF isPolitic
         THEN IF value.n >= 40 THEN "#7f1d1d"
              ELSE IF value.n >= 20 THEN "#dc2626"
              ELSE IF value.n >= 0 THEN "#fca5a5"
              ELSE IF value.n >= -20 THEN "#93c5fd"
              ELSE IF value.n >= -40 THEN "#2563eb"
              ELSE "#1e3a8a"
         ELSE IF value.n >= 40 THEN "#7f1d1d"
              ELSE IF value.n >= 30 THEN "#dc2626"
              ELSE IF value.n >= 20 THEN "#f97316"
              ELSE IF value.n >= 10 THEN "#facc15"
              ELSE "#22c55e"

getColorForValue(value, isPolitic) ==
    IF value.isNull THEN "#e5e7eb"
    ELSE IF isPolitic
         THEN IF value.n > 40 THEN "#7f1d1d"
              ELSE IF value.n > 20 THEN "#dc2626"
              ELSE IF value.n > 0 THEN "#fca5a5"
              ELSE IF value.n > -20 THEN "#93c5fd"
              ELSE IF value.n > -40 THEN "#2563eb"
              ELSE "#1e3a8a"
         ELSE IF value.n > 40 THEN "#7f1d1d"
              ELSE IF value.n > 30 THEN "#dc2626"
              ELSE IF value.n > 20 THEN "#f97316"
              ELSE IF value.n > 10 THEN "#facc15"
              ELSE "#22c55e"

ColorInit ==
    /\ colorValue \in MetricValues
    /\ colorIsPolitic \in BOOLEAN
    /\ colorResult = NULL

ColorIdle ==
    /\ colorValue = JsNull
    /\ colorIsPolitic = FALSE
    /\ colorResult = NULL

\* a call of getColorForValue
ColorCall ==
    /\ colorResult = NULL
    /\ colorResult' = getColorForValue(colorValue, colorIsPolitic)
    /\ UNCHANGED <<colorValue, colorIsPolitic, NotColor>>

\* the next call, with other arguments
ColorNext ==
    /\ colorResult # NULL
    /\ colorValue' \in MetricValues
    /\ colorIsPolitic' \in BOOLEAN
    /\ colorResult' = NULL
    /\ UNCHANGED NotColor

(***************************************************************************)
(*        County metrics, and the fill expression of updateMapColors       *)
(***************************************************************************)
MaxRecords == 2         \* records in the fetched county_data.json

RawFips      == { "", "0", "01001", "01003" }    \* county.fips in the file
KeyOrder     == << "01001", "01003" >>           \* Object.entries order
GeoIds       == { "01001", "01003", "99999" }    \* GEOID of the geometries
RateValues   == { JsNull, JsNum(40), JsNum(45) }
MarginValues == { JsNull, JsNum(-50), JsNum(10) }
Metrics      == { "drugDeaths", "republicanMargin" }

CountyRecords ==
    [ fips : RawFips, DrugDeathRate : RateValues, RepublicanMargin : MarginValues ]

Datasets == UNION { [ 1..n -> CountyRecords ] : n \in 0..MaxRecords }

EmptyData == << >>

Put(f, k, v) == [ x \in DOMAIN f \cup { k } |-> IF x = k THEN v ELSE f[x] ]

\* data.forEach(county => { if (county.fips && county.fips !== '0')
\*                            dataMap[county.fips] = county })
RECURSIVE BuildDataMap(_, _)
BuildDataMap(data, acc) ==
    IF data = << >> THEN acc
    ELSE LET county == Head(data)
         IN  BuildDataMap(Tail(data),
                 IF county.fips # "" /\ county.fips # "0"
                 THEN Put(acc, county.fips, county)
                 ELSE acc)

\* the values countyData can take: a record per county code, under its code
ValidFips == { k \in RawFips : k # "" /\ k # "0" }
DataMaps ==
    UNION { { f \in [ S -> CountyRecords ] : \A k \in S : f[k].fips = k } :
            S \in SUBSET ValidFips }

DefaultFill == "#e5e7eb"        \* fillExpression.push('#e5e7eb')
InitialFill == << "#94a3b8" >>  \* paint of counties-fill when it is added

\* fillExpression.push(fips, color) for each entry of countyData
RECURSIVE FillPairs(_, _, _)
FillPairs(keys, data, m) ==
    IF keys = << >> THEN << >>
    ELSE LET fips  == Head(keys)
             rest  == FillPairs(Tail(keys), data, m)
         IN  IF fips \in DOMAIN data
             THEN LET value == IF m = "drugDeaths"
                               THEN data[fips].DrugDeathRate
                               ELSE data[fips].RepublicanMargin
                      color == getColorForValue(value, m = "republicanMargin")
                  IN  << fips, color >> \o rest
             ELSE rest

\* mutant: the fallback color is not pushed
FillExpression_NoDefault(data, m) ==
    << "match", "get GEOID" >> \o FillPairs(KeyOrder, data, m)

\* ['match', ['get', 'GEOID'], fips1, color1, ..., '#e5e7eb']
FillExpression(data, m) ==
    << "match", "get GEOID" >> \o FillPairs(KeyOrder, data, m) \o << DefaultFill >>

\* maplibre: a match expression has an input, at least one label-output pair
\* and a fallback
ValidMatch(expr) == Len(expr) >= 5 /\ Len(expr) % 2 = 1

\* maplibre setPaintProperty: an expression that fails validation is reported
\* on the map's error event and the property keeps its value
SetPaintProperty(current, expr) == IF ValidMatch(expr) THEN expr ELSE current

\* maplibre: the fill color of a feature under a paint value (a constant
\* color, or a match on the feature's GEOID)
RECURSIVE MatchLookup(_, _, _)
MatchLookup(expr, i, geoid) ==
    IF i + 1 > Len(expr) THEN expr[Len(expr)]
    ELSE IF expr[i] = geoid THEN expr[i + 1]
    ELSE MatchLookup(expr, i + 2, geoid)

EvalFill(paint, geoid) ==
    IF Len(paint) = 1 THEN paint[1] ELSE MatchLookup(paint, 3, geoid)

\* the body of updateMapColors past its guard is entered only with a county
\* layer, which the load-GeoJSON effect adds only for a non-empty countyData
FillInit ==
    /\ fillData \in DataMaps \ { EmptyData }
    /\ fillMetric \in Metrics
    /\ fillGeoid \in GeoIds
    /\ fillColorOut = NULL

FillIdle ==
    /\ fillData = EmptyData
    /\ fillMetric = "drugDeaths"
    /\ fillGeoid = "99999"
    /\ fillColorOut = NULL

\* updateMapColors builds and sets the expression, the map paints a geometry
FillApply ==
    /\ fillColorOut = NULL
    /\ fillColorOut' =
           EvalFill(SetPaintProperty(InitialFill,
                                     FillExpression(fillData, fillMetric)),
                    fillGeoid)
    /\ UNCHANGED <<fillData, fillMetric, fillGeoid, NotFill>>

FillNext ==
    /\ fillColorOut # NULL
    /\ fillData' \in DataMaps \ { EmptyData }
    /\ fillMetric' \in Metrics
    /\ fillGeoid' \in GeoIds
    /\ fillColorOut' = NULL
    /\ UNCHANGED NotFill

(***************************************************************************)
(*                     The CountyMapGL component                           *)
(*                                                                         *)
(* React renders the component, commits the tree (attaching refs) and then *)
(* runs the effects whose dependencies changed, in the order they are      *)
(* written.  While loading is true the component returns the "Loading map  *)
(* data..." div, which does not hold the div that carries ref=mapContainer:*)
(* after such a commit mapContainer.current is null.                       *)
(***************************************************************************)
NoHover == [ shown |-> FALSE, name |-> NULL, fips |-> NULL ]

NoMap ==
    [ exists |-> FALSE, loaded |-> FALSE, loadListeners |-> << >>,
      source |-> FALSE, fillLayer |-> FALSE, outlineLayer |-> FALSE,
      fillColor |-> << >>, hoverListeners |-> << >> ]

\* new maplibregl.Map({...})
NewMap == [ NoMap EXCEPT !.exists = TRUE ]

MapIdle ==
    /\ mounted = FALSE
    /\ rendered = FALSE
    /\ dirty = {}
    /\ view = "none"
    /\ containerAttached = FALSE
    /\ loading = TRUE
    /\ countyData = EmptyData
    /\ metric = "drugDeaths"
    /\ hoveredCounty = NoHover
    /\ map = NoMap
    /\ initCleanup = FALSE
    /\ metricFetch = "none"
    /\ geoPending = << >>
    /\ geoIssued = FALSE
    /\ geoFailed = FALSE

\* ---- the effects, as functions of map.current and of the values of the
\* ---- render they close over

\* "Initialize map": if (!mapContainer.current || map.current) return
InitMapEffect(mp, attached) ==
    IF ~attached \/ mp.exists THEN mp ELSE NewMap

\* "Load GeoJSON and add county layer": registers the load handler
GeoEffect(mp, ld, data, m) ==
    IF ~mp.exists \/ ld \/ DOMAIN data = {} THEN mp
    ELSE [ mp EXCEPT !.loadListeners =
               Append(@, [ metric |-> m, data |-> data, live |-> TRUE ]) ]

updateMapColors(mp, m, data) ==
    IF ~mp.exists \/ ~mp.fillLayer THEN mp
    ELSE [ mp EXCEPT !.fillColor = SetPaintProperty(@, FillExpression(data, m)) ]

\* "Add hover interactions": map.current.on('mousemove' / 'mouseleave', ...)
HoverEffect(mp, data) ==
    IF ~mp.exists THEN mp
    ELSE [ mp EXCEPT !.hoverListeners = Append(@, data) ]

\* its cleanup: map.current.off(...)
HoverCleanup(mp) ==
    IF ~mp.exists THEN mp ELSE [ mp EXCEPT !.hoverListeners = << >> ]

\* ReactDOM mounts the component; its first render follows
Mount ==
    /\ ~mounted
    /\ mounted' = TRUE
    /\ UNCHANGED <<rendered, dirty, view, containerAttached, loading,
                   countyData, metric, hoveredCounty, map, initCleanup,
                   metricFetch, geoPending, geoIssued, geoFailed, NotMap>>

\* One render and commit, with the effects that follow it.  The first commit
\* runs every effect; a later one runs those with a changed dependency, the
\* cleanups of all of them first.  "Initialize map" has the dependency list
\* [] and runs after the first commit only; loading is true in that render
\* (useState(true)), so the tree committed is the loading div and the ref of
\* the map's container is not attached when the effect reads it.
Render ==
    /\ mounted
    /\ ~rendered \/ dirty # {}
    /\ LET first    == ~rendered
           attached == ~loading
           run3 == first \/ "loading" \in dirty \/ "countyData" \in dirty
           run4 == first \/ "metric" \in dirty \/ "countyData" \in dirty
           run5 == first \/ "countyData" \in dirty
           m1 == IF run5 /\ ~first THEN HoverCleanup(map) ELSE map
           m2 == IF first THEN InitMapEffect(m1, attached) ELSE m1
           m3 == IF run3 THEN GeoEffect(m2, loading, countyData, metric) ELSE m2
           m4 == IF run4 THEN updateMapColors(m3, metric, countyData) ELSE m3
           m5 == IF run5 THEN HoverEffect(m4, countyData) ELSE m4
       IN  /\ view' = IF loading THEN "loading" ELSE "main"
           /\ containerAttached' = attached
           /\ map' = m5
           /\ initCleanup' = IF first THEN m2.exists ELSE initCleanup
           /\ metricFetch' = IF first THEN "inflight" ELSE metricFetch
    /\ rendered' = TRUE
    /\ dirty' = {}
    /\ UNCHANGED <<mounted, loading, countyData, metric, hoveredCounty,
                   geoPending, geoIssued, geoFailed, NotMap>>

\* onClick of the "Drug Death Rate" / "Political Lean" buttons, which are part
\* of the main tree only; setting the current value again is no update
ClickMetric(m) ==
    /\ mounted
    /\ view = "main"
    /\ m # metric
    /\ metric' = m
    /\ dirty' = dirty \cup { "metric" }
    /\ UNCHANGED <<mounted, rendered, view, containerAttached, loading,
                   countyData, hoveredCounty, map, initCleanup, metricFetch,
                   geoPending, geoIssued, geoFailed, NotMap>>

\* ---- callbacks run by the event loop
Task(kind, ok, data, hit) ==
    [ kind |-> kind, ok |-> ok, data |-> data, hit |-> hit ]

\* the callbacks that can run next: the settling of a fetch, the map's load
\* event, a pointer event on the county layer (maplibre calls a listener
\* delegated to a layer only for a point over one of the layer's features)
Tasks ==
    (IF mounted /\ metricFetch = "inflight"
     THEN { Task("metricSettle", TRUE, d, NULL) : d \in Datasets }
          \cup { Task("metricSettle", FALSE, << >>, NULL) }
     ELSE {})
    \cup
    (IF map.exists /\ ~map.loaded
     THEN { Task("mapLoad", TRUE, << >>, NULL) } ELSE {})
    \cup
    (IF geoPending # << >>
     THEN { Task("geoSettle", b, << >>, NULL) : b \in BOOLEAN } ELSE {})
    \cup
    (IF map.exists /\ map.fillLayer /\ map.hoverListeners # << >>
     THEN { Task("mousemove", TRUE, << >>, g) : g \in GeoIds }
          \cup { Task("mouseleave", TRUE, << >>, NULL) }
     ELSE {})

\* mutant: a failed fetch also ends the loading state
MetricSettle_FinallyLoaded(t) ==
    /\ metricFetch' = IF t.ok THEN "resolved" ELSE "rejected"
    /\ countyData' = IF t.ok THEN BuildDataMap(t.data, EmptyData) ELSE countyData
    /\ loading' = FALSE
    /\ dirty' = dirty \cup (IF t.ok THEN { "countyData" } ELSE {})
                      \cup (IF loading THEN { "loading" } ELSE {})
    /\ UNCHANGED <<hoveredCounty, map, geoPending, geoIssued, geoFailed>>

\* fetch('/data/county_data.json').then(r => r.json()).then(data => ...):
\* a rejection (network error, a body that is not JSON, JSON that is not an
\* array) has no handler and sets nothing
MetricSettle(t) ==
    IF t.ok
    THEN /\ metricFetch' = "resolved"
         /\ countyData' = BuildDataMap(t.data, EmptyData)
         /\ loading' = FALSE
         /\ dirty' = dirty \cup { "countyData" }
                           \cup (IF loading THEN { "loading" } ELSE {})
         /\ UNCHANGED <<hoveredCounty, map, geoPending, geoIssued, geoFailed>>
    ELSE /\ metricFetch' = "rejected"
         /\ UNCHANGED <<countyData, loading, dirty, hoveredCounty, map,
                        geoPending, geoIssued, geoFailed>>

\* the map's load event: each registered handler starts the geometry fetch
MapLoad ==
    /\ map' = [ map EXCEPT !.loaded = TRUE ]
    /\ geoPending' = geoPending \o map.loadListeners
    /\ geoIssued' = (geoIssued \/ map.loadListeners # << >>)
    /\ UNCHANGED <<metricFetch, countyData, loading, dirty, hoveredCounty,
                   geoFailed>>

\* fetch('/data/us_counties.geojson') settles; c is the load handler's closure
GeoSettle(t) ==
    LET c == Head(geoPending)
    IN  /\ geoPending' = Tail(geoPending)
        /\ geoFailed' = (geoFailed \/ ~t.ok)
        /\ map' = IF ~t.ok \/ ~c.live \/ ~map.exists \/ map.source
                  THEN map
                  ELSE updateMapColors(
                           [ map EXCEPT !.source = TRUE, !.fillLayer = TRUE,
                                        !.fillColor = InitialFill,
                                        !.outlineLayer = TRUE ],
                           c.metric, c.data)
        /\ UNCHANGED <<metricFetch, countyData, loading, dirty, hoveredCounty,
                       geoIssued>>

\* handleMouseMove of the closure over data, for the feature hit
handleMouseMove(data, hit, hovered) ==
    IF hit = NULL THEN NoHover
    ELSE IF hit \in DOMAIN data
         THEN [ shown |-> TRUE, name |-> hit, fips |-> data[hit].fips ]
         ELSE hovered

RECURSIVE HoveredAfter(_, _, _)
HoveredAfter(listeners, hit, hovered) ==
    IF listeners = << >> THEN hovered
    ELSE HoveredAfter(Tail(listeners), hit,
                      handleMouseMove(Head(listeners), hit, hovered))

MouseMove(t) ==
    /\ hoveredCounty' = HoveredAfter(map.hoverListeners, t.hit, hoveredCounty)
    /\ dirty' = IF \E i \in 1..Len(map.hoverListeners) :
                       t.hit \in DOMAIN map.hoverListeners[i]
                THEN dirty \cup { "hoveredCounty" } ELSE dirty
    /\ UNCHANGED <<metricFetch, countyData, loading, map, geoPending,
                   geoIssued, geoFailed>>

\* handleMouseLeave
MouseLeave ==
    /\ hoveredCounty' = NoHover
    /\ dirty' = IF hoveredCounty.shown THEN dirty \cup { "hoveredCounty" }
                ELSE dirty
    /\ UNCHANGED <<metricFetch, countyData, loading, map, geoPending,
                   geoIssued, geoFailed>>

\* The event loop runs one ready callback.  In SpecMap only the settling of
\* the county_data fetch ever becomes ready: the other callbacks need a map
\* instance, and InitMapEffect never creates one (see Render).
RunTask(t) ==
    /\ CASE t.kind = "metricSettle" -> MetricSettle(t)
         [] t.kind = "mapLoad"      -> MapLoad
         [] t.kind = "geoSettle"    -> GeoSettle(t)
         [] t.kind = "mousemove"    -> MouseMove(t)
         [] t.kind = "mouseleave"   -> MouseLeave
    /\ UNCHANGED <<mounted, rendered, view, containerAttached, metric,
                   initCleanup, NotMap>>

Stale(c) == [ c EXCEPT !.live = FALSE ]

\* The component is unmounted: the cleanups run ("Initialize map" has one
\* only if it created the map), the state is dropped.  A county_data fetch
\* still in flight can only set the state of the unmounted instance, which
\* React ignores; a geometry fetch still in flight keeps its closure.
Unmount ==
    /\ mounted
    /\ mounted' = FALSE
    /\ map' = IF initCleanup THEN NoMap ELSE HoverCleanup(map)
    /\ geoPending' = [ i \in 1..Len(geoPending) |-> Stale(geoPending[i]) ]
    /\ rendered' = FALSE
    /\ dirty' = {}
    /\ view' = "none"
    /\ containerAttached' = FALSE
    /\ loading' = TRUE
    /\ countyData' = EmptyData
    /\ metric' = "drugDeaths"
    /\ hoveredCounty' = NoHover
    /\ initCleanup' = FALSE
    /\ metricFetch' = "none"
    /\ geoIssued' = FALSE
    /\ geoFailed' = FALSE
    /\ UNCHANGED NotMap

(***************************************************************************)
(*                 The hover listeners over a county layer                 *)
(*                                                                         *)
(* handleMouseMove and handleMouseLeave as maplibre calls them once they   *)
(* are registered on the layer counties-fill.  maplibre calls a mousemove  *)
(* listener delegated to a layer only for a movement over a feature of the *)
(* layer, and a delegated mouseleave listener when a movement finds no     *)
(* feature, or the pointer leaves the map, after a movement that found one.*)
(***************************************************************************)
PointerHits == GeoIds \cup { NULL }     \* the topmost feature's GEOID, or none

\* mutant: the tooltip is kept when the pointer leaves
handleMouseLeave_Keep(hovered) == hovered

\* handleMouseLeave: setHoveredCounty(null)
handleMouseLeave(hovered) == NoHover

TipInit ==
    /\ tipData \in DataMaps \ { EmptyData }
    /\ tipHovered = NoHover
    /\ tipMouseIn = FALSE
    /\ tipLastEvent = "none"
    /\ tipLastHit = NULL
    /\ tipArmed = FALSE

TipIdle ==
    /\ tipData = EmptyData
    /\ tipHovered = NoHover
    /\ tipMouseIn = FALSE
    /\ tipLastEvent = "none"
    /\ tipLastHit = NULL
    /\ tipArmed = FALSE

\* the pointer moves over the map, to a point whose topmost county feature is
\* hit (NULL: no county feature there)
PointerMove(hit) ==
    /\ tipHovered' =
           IF hit # NULL THEN handleMouseMove(tipData, hit, tipHovered)
           ELSE IF tipMouseIn THEN handleMouseLeave(tipHovered)
           ELSE tipHovered
    /\ tipMouseIn' = (hit # NULL)
    /\ tipLastEvent' = IF hit # NULL THEN "hit" ELSE "miss"
    /\ tipLastHit' = hit
    /\ tipArmed' = IF hit = NULL THEN FALSE
                   ELSE IF hit \in DOMAIN tipData THEN TRUE
                   ELSE tipArmed
    /\ UNCHANGED <<tipData, NotTip>>

\* the pointer leaves the map (mouseout)
PointerOut ==
    /\ tipLastEvent # "out"
    /\ tipHovered' = IF tipMouseIn THEN handleMouseLeave(tipHovered)
                     ELSE tipHovered
    /\ tipMouseIn' = FALSE
    /\ tipLastEvent' = "out"
    /\ tipArmed' = FALSE
    /\ UNCHANGED <<tipData, tipLastHit, NotTip>>

(***************************************************************************)
(*        The map instance of one component instance, and its teardown     *)
(*                                                                         *)
(* The effects that touch map.current and the callbacks they start, for    *)
(* either outcome of the test of mapContainer.current in "Initialize map" *)
(* (in the component the container is not attached when the effect runs,   *)
(* see Render).  The map's load event and the settling of the geometry     *)
(* fetch are callbacks of the event loop and may run after the unmount.    *)
(***************************************************************************)
\* mutant: the instance is removed, the reference to it is kept
InitMapCleanup_KeepRef(mp) == mp

\* cleanup of "Initialize map": map.current?.remove(); map.current = null
InitMapCleanup(mp) == NoMap

\* the load handler's continuation of the geometry fetch:
\* if (!map.current) return; addSource, addLayer (fill), addLayer (outline),
\* updateMapColors()
AddCountyLayers(mp, m, data) ==
    IF ~mp.exists THEN mp
    ELSE updateMapColors([ mp EXCEPT !.source = TRUE, !.fillLayer = TRUE,
                                     !.fillColor = InitialFill,
                                     !.outlineLayer = TRUE ],
                         m, data)

TdInit ==
    /\ \E attached \in BOOLEAN :
          /\ tdMap = InitMapEffect(NoMap, attached)
          /\ tdCreated = attached
    /\ tdData \in DataMaps \ { EmptyData }
    /\ tdMetric \in Metrics
    /\ tdHandler = FALSE
    /\ tdLoadFired = FALSE
    /\ tdFetch = "none"
    /\ tdUnmounted = FALSE
    /\ tdLateRuns = 0
    /\ tdLateOps = 0

TdIdle ==
    /\ tdMap = NoMap
    /\ tdCreated = FALSE
    /\ tdData = EmptyData
    /\ tdMetric = "drugDeaths"
    /\ tdHandler = FALSE
    /\ tdLoadFired = FALSE
    /\ tdFetch = "none"
    /\ tdUnmounted = FALSE
    /\ tdLateRuns = 0
    /\ tdLateOps = 0

\* "Load GeoJSON and add county layer" runs with the data loaded, and
\* "Add hover interactions" after it
TdRegister ==
    /\ ~tdUnmounted
    /\ ~tdHandler
    /\ tdHandler' =
           (GeoEffect(tdMap, FALSE, tdData, tdMetric).loadListeners # << >>)
    /\ tdHandler'
    /\ tdMap' = HoverEffect(tdMap, tdData)
    /\ UNCHANGED <<tdCreated, tdData, tdMetric, tdLoadFired, tdFetch,
                   tdUnmounted, tdLateRuns, tdLateOps, NotTd>>

\* the instance fires its load event; the handler, when registered:
\* if (!map.current) return; fetch('/data/us_counties.geojson')
TdLoad ==
    /\ tdCreated
    /\ ~tdLoadFired
    /\ tdLoadFired' = TRUE
    /\ tdMap' = IF tdMap.exists THEN [ tdMap EXCEPT !.loaded = TRUE ] ELSE tdMap
    /\ tdFetch' = IF tdHandler /\ tdMap.exists THEN "inflight" ELSE tdFetch
    /\ tdLateRuns' = IF tdUnmounted /\ tdHandler THEN tdLateRuns + 1
                     ELSE tdLateRuns
    /\ UNCHANGED <<tdCreated, tdData, tdMetric, tdHandler, tdUnmounted,
                   tdLateOps, NotTd>>

\* the geometry fetch settles; on success the continuation runs
TdGeoSettle(ok) ==
    /\ tdFetch = "inflight"
    /\ tdFetch' = "settled"
    /\ tdMap' = IF ok THEN AddCountyLayers(tdMap, tdMetric, tdData) ELSE tdMap
    /\ tdLateRuns' = IF tdUnmounted THEN tdLateRuns + 1 ELSE tdLateRuns
    /\ tdLateOps' = IF tdUnmounted /\ ok /\ tdMap.exists THEN tdLateOps + 1
                    ELSE tdLateOps
    /\ UNCHANGED <<tdCreated, tdData, tdMetric, tdHandler, tdLoadFired,
                   tdUnmounted, NotTd>>

\* the component is unmounted: the cleanups run in the order of the effects,
\* that of "Initialize map" (returned only when the effect created the map),
\* then that of "Add hover interactions"
Teardown ==
    /\ ~tdUnmounted
    /\ tdUnmounted' = TRUE
    /\ tdMap' = HoverCleanup(IF tdCreated THEN InitMapCleanup(tdMap) ELSE tdMap)
    /\ UNCHANGED <<tdCreated, tdData, tdMetric, tdHandler, tdLoadFired,
                   tdFetch, tdLateRuns, tdLateOps, NotTd>>

(***************************************************************************)
(*                            Specifications                               *)
(***************************************************************************)
CompareStep ==
    \/ \E q \in Queries : CompareRequest(q)
    \/ Tick
    \/ \E code \in ExitCodes, out \in Stdouts : ChildExit(code, out)
    \/ ExecTimeout
    \/ CompareContinue
    \/ CompareNext

InitCompare == CmpInit /\ DataIdle /\ ColorIdle /\ FillIdle /\ MapIdle /\ TipIdle
    /\ TdIdle

SpecCompare == InitCompare /\ [][CompareStep]_vars

\* The event loop runs a ready continuation and a due timer, and time passes;
\* nothing obliges the child to end or a next request to arrive.
FairCompare ==
    /\ SpecCompare
    /\ WF_vars(Tick)
    /\ WF_vars(ExecTimeout)
    /\ WF_vars(CompareContinue)

DataStep ==
    \/ GetGeoJson
    \/ \E year \in Years : GetYearData(year)

InitData == CmpInit /\ DataInit /\ ColorIdle /\ FillIdle /\ MapIdle /\ TipIdle
    /\ TdIdle

SpecData == InitData /\ [][DataStep]_vars

ColorStep == ColorCall \/ ColorNext

InitColor == CmpInit /\ DataIdle /\ ColorInit /\ FillIdle /\ MapIdle /\ TipIdle
    /\ TdIdle

SpecColor == InitColor /\ [][ColorStep]_vars

FillStep == FillApply \/ FillNext

InitFill == CmpInit /\ DataIdle /\ ColorIdle /\ FillInit /\ MapIdle /\ TipIdle
    /\ TdIdle

SpecFill == InitFill /\ [][FillStep]_vars

MapStep ==
    \/ Mount
    \/ Render
    \/ \E m \in Metrics : ClickMetric(m)
    \/ \E t \in Tasks : RunTask(t)
    \/ Unmount

InitMap == CmpInit /\ DataIdle /\ ColorIdle /\ FillIdle /\ MapIdle /\ TipIdle
    /\ TdIdle

SpecMap == InitMap /\ [][MapStep]_vars

HoverStep ==
    \/ \E hit \in PointerHits : PointerMove(hit)
    \/ PointerOut

InitHover == CmpInit /\ DataIdle /\ ColorIdle /\ FillIdle /\ MapIdle /\ TipInit
    /\ TdIdle

SpecHover == InitHover /\ [][HoverStep]_vars

TeardownStep ==
    \/ TdRegister
    \/ TdLoad
    \/ \E ok \in BOOLEAN : TdGeoSettle(ok)
    \/ Teardown

InitTeardown ==
    CmpInit /\ DataIdle /\ ColorIdle /\ FillIdle /\ MapIdle /\ TipIdle /\ TdInit

SpecTeardown == InitTeardown /\ [][TeardownStep]_vars

(***************************************************************************)
(*                               Claims                                    *)
(***************************************************************************)
\* a required county identifier is absent or empty
CountyMissing(q) ==
    \/ q.countyA = NULL \/ q.countyA = ""
    \/ q.countyB = NULL \/ q.countyB = ""

\* C1: a compare request whose countyA or countyB is absent or empty is
\* answered with status 400, once, and no external process is spawned for it,
\* whatever year and the three control flags are.
C1_MissingCountyIs400 ==
    (cmpPc # "idle" /\ CountyMissing(cmpQuery)) =>
        /\ cmpPc = "done"
        /\ cmpResponse.status = 400
        /\ cmpResponses = 1
        /\ execCalls = 0
        /\ proc = "none"

C1_Witness ==
    /\ cmpPc = "done"
    /\ cmpQuery.countyA = "01001"
    /\ cmpQuery.countyB = ""
    /\ cmpQuery.year = "2020"
    /\ cmpQuery.controlPoverty = "true"
    /\ cmpQuery.controlUrbanRural = "True"
    /\ cmpResponse.status = 400

\* C2: every compare request receives exactly one response and never hangs:
\* a request waiting for the external routine is eventually answered, never
\* twice, and when the routine had not finished at the 10 s deadline the
\* answer is an error with status 500.
C2_AnsweredOnceNeverHangs ==
    /\ [](cmpResponses <= 1)
    /\ [](cmpPc = "done" => cmpResponses = 1)
    /\ []((cmpPc = "done" /\ clock >= timeout) => cmpResponse.status = 500)
    /\ ((cmpPc = "awaitExec") ~> (cmpPc = "done" /\ cmpResponses = 1))

C2_Witness ==
    /\ cmpPc = "done"
    /\ proc = "killed"
    /\ clock >= timeout
    /\ cmpResponses = 1
    /\ cmpResponse.status = 500

\* C3 as amended: every number and null maps to one color of the ladder of
\* its metric, null to the neutral color, and every boundary is a strict
\* greater-than test: a mortality rate of exactly 40 is in the 30-40 bin
\* (#dc2626), only a rate above 40 is darkest red.
C3_StrictLadders ==
    colorResult # NULL =>
        LET n == colorValue.n
            c == colorResult
        IN  IF colorValue.isNull THEN c = "#e5e7eb"
            ELSE IF colorIsPolitic
            THEN /\ (n > 40) = (c = "#7f1d1d")
                 /\ (20 < n /\ n <= 40) = (c = "#dc2626")
                 /\ (0 < n /\ n <= 20) = (c = "#fca5a5")
                 /\ (-20 < n /\ n <= 0) = (c = "#93c5fd")
                 /\ (-40 < n /\ n <= -20) = (c = "#2563eb")
                 /\ (n <= -40) = (c = "#1e3a8a")
            ELSE /\ (n > 40) = (c = "#7f1d1d")
                 /\ (30 < n /\ n <= 40) = (c = "#dc2626")
                 /\ (20 < n /\ n <= 30) = (c = "#f97316")
                 /\ (10 < n /\ n <= 20) = (c = "#facc15")
                 /\ (n <= 10) = (c = "#22c55e")

C3_Witness ==
    /\ ~colorValue.isNull
    /\ colorValue.n = 40
    /\ ~colorIsPolitic
    /\ colorResult = "#dc2626"

\* C3 as stated: a mortality rate of exactly 40 maps to the >=40 bin, the
\* darkest red.
C3_Original ==
    (colorResult # NULL /\ ~colorIsPolitic /\ ~colorValue.isNull
        /\ colorValue.n >= 40) => colorResult = "#7f1d1d"

\* C5: the geojson route answers 404 whenever the boundary file is absent, in
\* every state of the file system (also when public/data is absent), 500 when
\* the file exists and does not parse, and 200 with the collection otherwise.
C5_GeoJsonStatuses ==
    dataReq.route = "geojson" =>
        /\ fsGeo = ABSENT => dataResponse.status = 404
        /\ (fsGeo # ABSENT /\ ~JsonWellFormed(fsGeo)) =>
               dataResponse.status = 500
        /\ (fsGeo # ABSENT /\ JsonWellFormed(fsGeo) /\ fsGeo # "null") =>
               /\ dataResponse.status = 200
               /\ dataResponse.value = JsonParse(fsGeo)

\* C6: the years route answers 404 with the error "Year {year} not found" for
\* a year without a data file, 500 for a file that does not parse, and 200
\* with the parsed content and the immutable one-year cache header for a file
\* that parses; it always answers.
C6_YearStatuses ==
    dataReq.route = "years" =>
        LET file == fsYears[dataReq.year]
        IN  /\ dataResponse.status \in { 200, 404, 500 }
            /\ file = ABSENT =>
                   /\ dataResponse.status = 404
                   /\ dataResponse.error = "Year " \o dataReq.year \o " not found"
            /\ (file # ABSENT /\ ~JsonWellFormed(file)) =>
                   dataResponse.status = 500
            /\ (file # ABSENT /\ JsonWellFormed(file)) =>
                   /\ dataResponse.status = 200
                   /\ dataResponse.value = JsonParse(file)
                   /\ dataResponse.cacheControl =
                          "public, max-age=31536000, immutable"

C6_Witness ==
    /\ dataReq.route = "years"
    /\ dataReq.year = "1899"
    /\ fsYears["1899"] = ABSENT
    /\ fsYears["2018"] # ABSENT
    /\ dataResponse.status = 404
    /\ dataResponse.error = "Year 1899 not found"

\* the child ended by itself with status 0 and printed well-formed JSON
RoutineSucceeded ==
    /\ proc = "exited"
    /\ procResult.code = 0
    /\ JsonWellFormed(Trim(procResult.stdout))

\* C10: a compare request that passes validation spawns exactly one external
\* process, never a second; when the process fails, is killed at the timeout
\* or prints something that is not well-formed JSON the response is a JSON
\* error body with status 500, and when it succeeds the response is status
\* 200 with the parsed output.
C10_OneSpawnNoRetry ==
    /\ execCalls <= 1
    /\ (cmpPc # "idle" /\ ~CountyMissing(cmpQuery)) => execCalls = 1
    /\ (cmpPc = "done" /\ ~CountyMissing(cmpQuery)) =>
           IF RoutineSucceeded
           THEN /\ cmpResponse.status = 200
                /\ cmpResponse.body.value = JsonParse(Trim(procResult.stdout))
                /\ cmpResponse.body.error = NULL
           ELSE /\ cmpResponse.status = 500
                /\ cmpResponse.body.error # NULL
                /\ cmpResponse.body.value = NULL

C10_Witness ==
    /\ cmpPc = "done"
    /\ execCalls = 1
    /\ proc = "exited"
    /\ procResult.code = 0
    /\ procResult.stdout = "NaN\n"
    /\ cmpResponse.status = 500

\* the component is mounted and rendered and nothing is left to run: no state
\* update to render, no fetch in flight, no map waiting for its load event
Quiescent ==
    /\ mounted
    /\ rendered
    /\ dirty = {}
    /\ metricFetch # "inflight"
    /\ geoPending = << >>
    /\ ~(map.exists /\ ~map.loaded)

\* the metric fetch succeeded with at least one valid record
MetricsLoaded == metricFetch = "resolved" /\ DOMAIN countyData # {}

\* C4: after mount, when the metric fetch has succeeded with at least one
\* valid record (and no geometry fetch has failed), then once nothing is left
\* to run a map instance has been created, the geometry fetch has been issued
\* and the county fill layer has been added.
C4_MapInitialised ==
    (Quiescent /\ MetricsLoaded /\ ~geoFailed) =>
        /\ map.exists
        /\ geoIssued
        /\ map.fillLayer

\* C7: when the county metric fetch or the geometry fetch has failed the
\* component shows its loading state, and never a map without the county
\* layer.
C7_FailureShowsLoading ==
    /\ (mounted /\ metricFetch = "rejected") => (loading /\ view = "loading")
    /\ (metricFetch = "rejected" \/ geoFailed) =>
           ~(view = "main" /\ map.exists /\ ~map.fillLayer)

C7_Witness ==
    /\ mounted
    /\ rendered
    /\ dirty = {}
    /\ metricFetch = "rejected"
    /\ view = "loading"

C9_FillByEntryOrFallback ==
    fillColorOut # NULL =>
        /\ ValidMatch(FillExpression(fillData, fillMetric))
        /\ IF fillGeoid \in DOMAIN fillData
           THEN fillColorOut =
                    getColorForValue(
                        IF fillMetric = "drugDeaths"
                        THEN fillData[fillGeoid].DrugDeathRate
                        ELSE fillData[fillGeoid].RepublicanMargin,
                        fillMetric = "republicanMargin")
           ELSE fillColorOut = "#e5e7eb"

C9_Witness ==
    /\ fillGeoid = "99999"
    /\ DOMAIN fillData = { "01001", "01003" }
    /\ fillColorOut = "#e5e7eb"

\* C11: after a pointer movement over a county feature that has a metric
\* record the tooltip shown is that of this feature and record; after the
\* pointer has left the layer, or a movement has hit no feature, no tooltip is
\* shown, and none is shown again before a movement over a feature that has a
\* metric record.
C11_TooltipShownAndCleared ==
    /\ (tipLastEvent = "hit" /\ tipLastHit \in DOMAIN tipData) =>
           /\ tipHovered.shown
           /\ tipHovered.name = tipLastHit
           /\ tipHovered.fips = tipData[tipLastHit].fips
    /\ tipLastEvent \in { "miss", "out" } => ~tipHovered.shown
    /\ tipHovered.shown => tipArmed

C11_Witness ==
    /\ tipLastEvent = "hit"
    /\ tipLastHit = "01003"
    /\ tipMouseIn
    /\ tipHovered.shown
    /\ tipHovered.name = "01003"
    /\ DOMAIN tipData = { "01001", "01003" }

\* the text a flag's query parameter must give in the command: Python's True
\* exactly for the parameter value "true", Python's False for any other value
\* and for an absent parameter
FlagText(param) == IF param = "true" THEN "True" ELSE "False"

\* C12: for a request that reaches the external routine, each of the three
\* control flags handed to it is true exactly when that flag's own query
\* parameter is the exact text "true"; an absent parameter and every other
\* value ("True", "1") give false, whatever the other two flags are.
C12_FlagsExactTrue ==
    cmpPc \in { "awaitExec", "done" } /\ execCalls = 1 =>
        /\ cmpArgs.controlPoverty = FlagText(cmpQuery.controlPoverty)
        /\ cmpArgs.controlIncome = FlagText(cmpQuery.controlIncome)
        /\ cmpArgs.controlUrbanRural = FlagText(cmpQuery.controlUrbanRural)

C12_Witness ==
    /\ cmpPc = "awaitExec"
    /\ execCalls = 1
    /\ cmpQuery.controlPoverty = "True"
    /\ cmpQuery.controlIncome = "true"
    /\ cmpQuery.controlUrbanRural = "1"
    /\ cmpArgs.controlPoverty = "False"
    /\ cmpArgs.controlIncome = "True"
    /\ cmpArgs.controlUrbanRural = "False"

\* C13: once the component has unmounted, map.current is empty and stays
\* empty, and a load callback or a geometry fetch that completes afterwards
\* performs no operation on a map: no source or layer is added and no paint
\* property is set.
C13_TeardownReleasesMap ==
    tdUnmounted =>
        /\ tdMap = NoMap
        /\ tdLateOps = 0

C13_Witness ==
    /\ tdUnmounted
    /\ tdCreated
    /\ tdHandler
    /\ tdFetch = "settled"
    /\ tdLateRuns > 0
    /\ tdMap = NoMap

=============================================================================
